---- MODULE Spec2Model ----
(***************************************************************************)
(* Model of da.utils.hierarchy: HierarchyNode (a dict with parent/child    *)
(* relations), HierarchyList (the id-indexed tree) and compare_hierarchy   *)
(* (the structural diff generator).                                        *)
(*                                                                         *)
(* Nodes are identified by their allocation number 1, 2, ...  The state of *)
(* node n is parent[n] (the _parent attribute), children[n] (the contents  *)
(* of the list object bound to the attribute `children`), field[n] (the    *)
(* contents of the list object stored in the mapping under "children") and *)
(* aliased[n] (both are still one and the same list object), and nid[n]    *)
(* (an attribute the enrichment callback sets on the node).                *)
(***************************************************************************)
EXTENDS Integers, Sequences, FiniteSets, TLC

\* ---------------------------------------------------------------- bounds
MaxItems == 3
NumNodes == 3
MaxLen == 2

\* Python's None where a node reference or an id is expected; stands for
\* every falsy parent id (None, 0, ""), which `if n_parent_id:` treats alike.
None == 0

VARIABLES
    items,        \* the iterable handed to HierarchyList.__init__ (consumed prefix)
    phase,        \* "init" (inside the constructor loop), "built", "failed"
    idx,          \* HierarchyList.idx : id -> node
    childrenIds,  \* HierarchyList.children : set of ids
    roots,        \* the HierarchyList itself (a list of nodes)
    parent,       \* node -> node or None
    children,     \* node -> sequence of nodes (attribute `children`)
    field,        \* node -> sequence of nodes (mapping entry "children")
    aliased,      \* node -> BOOLEAN
    nid,          \* node -> id stored by the callback, None for a placeholder
    lastOp,       \* the last operation applied and its arguments
    out,          \* what the last list_generator call yielded
    exc,          \* the exception the last operation raised, "none" otherwise
    cmp           \* state of one compare_hierarchy generator
vars == <<items, phase, idx, childrenIds, roots, parent, children, field,
          aliased, nid, lastOp, out, exc, cmp>>

treeVars == <<items, phase, idx, childrenIds, roots, parent, children, field,
              aliased, nid, lastOp, out, exc>>

\* the ids of the items: as many as there can be items, since the ids of
\* one input are unique
Ids == 1..MaxItems

\* list_generator(depth=3): "the depth 0..3"
DefaultDepth == 3
Depths == 0..DefaultDepth
Nodes == DOMAIN parent

\* `if n_parent_id:` -- the truth value of an id
Truthy(x) == x # None

\* ------------------------------------------------------- HierarchyNode
\* dict.__ne__ / dict.__eq__ of two nodes: the mappings hold the single
\* entry "children", compared as lists, element by element, identical
\* objects being equal without a look at their contents.  "E" is the
\* RuntimeError of a comparison that recurses for ever.
RECURSIVE NodeEq(_, _, _, _)
RECURSIVE ListEqFrom(_, _, _, _, _)
ListEqFrom(fld, xs, ys, k, seen) ==
    IF k > Len(xs) THEN "T"
    ELSE LET r == IF xs[k] = ys[k] THEN "T"
                  ELSE NodeEq(fld, xs[k], ys[k], seen)
         IN  IF r = "T" THEN ListEqFrom(fld, xs, ys, k + 1, seen) ELSE r

NodeEq(fld, n, m, seen) ==
    IF n = m THEN "T"
    ELSE IF <<n, m>> \in seen THEN "E"
    ELSE IF Len(fld[n]) # Len(fld[m]) THEN "F"
    ELSE ListEqFrom(fld, fld[n], fld[m], 1, seen \cup {<<n, m>>})

\* list.remove(x): the index of the first element equal to x, 0 when no
\* element is (ValueError), -1 when a comparison raises
RECURSIVE ListIndex(_, _, _, _)
ListIndex(fld, xs, x, k) ==
    IF k > Len(xs) THEN 0
    ELSE LET r == NodeEq(fld, xs[k], x, {})
         IN  IF r = "T" THEN k
             ELSE IF r = "E" THEN -1
             ELSE ListIndex(fld, xs, x, k + 1)

RemoveAt(xs, k) == SubSeq(xs, 1, k - 1) \o SubSeq(xs, k + 1, Len(xs))

\* rebinding-free mutation of the list object bound to n.children: the
\* mapping entry sees it as long as it is the same object
SetList(st, n, xs) ==
    [st EXCEPT !.children[n] = xs,
               !.field[n] = IF st.aliased[n] THEN xs ELSE @]

\* self._parent != parent
ParentDiffers(st, old, p) ==
    IF old = None /\ p = None THEN "F"
    ELSE IF old = None \/ p = None THEN "T"
    ELSE LET r == NodeEq(st.field, old, p, {})
         IN  IF r = "E" THEN "E" ELSE IF r = "T" THEN "F" ELSE "T"

\* HierarchyNode._set_parent: st is [parent, children, field, aliased];
\* the result carries the new state and the exception raised
SetParentAppend(st, n, p) ==
    LET st1 == [st EXCEPT !.parent[n] = p]
    IN  IF p # None THEN SetList(st1, p, Append(st1.children[p], n)) ELSE st1

SetParent(st, n, p) ==
    LET old == st.parent[n]
        ne  == ParentDiffers(st, old, p)
    IN  IF ne = "E" THEN [st |-> st, exc |-> "RuntimeError"]
        ELSE IF ne = "F" THEN [st |-> st, exc |-> "none"]
        ELSE IF old = None THEN [st |-> SetParentAppend(st, n, p), exc |-> "none"]
        ELSE LET k == ListIndex(st.field, st.children[old], n, 1)
             IN  IF k = 0 THEN [st |-> st, exc |-> "ValueError"]
                 ELSE IF k < 0 THEN [st |-> st, exc |-> "RuntimeError"]
                 ELSE [st |-> SetParentAppend(
                                 SetList(st, old, RemoveAt(st.children[old], k)), n, p),
                       exc |-> "none"]

NodeState == [parent |-> parent, children |-> children, field |-> field,
              aliased |-> aliased]

\* HierarchyNode.__init__: a fresh node appended to the heap
NewNode(st) ==
    [parent |-> Append(st.parent, None), children |-> Append(st.children, <<>>),
     field |-> Append(st.field, <<>>), aliased |-> Append(st.aliased, TRUE)]


\* HierarchyNode.parents: the loop `while parent:` (a node is a non-empty
\* mapping and so true) appends the nodes met walking upwards; ends is FALSE
\* when the walk comes back to a node it has appended and so goes on for ever
RECURSIVE ParentsLoop(_, _, _)
ParentsLoop(par, p, parents) ==
    IF p = None THEN [parents |-> parents, ends |-> TRUE]
    ELSE IF \E j \in 1..Len(parents) : parents[j] = p
         THEN [parents |-> parents, ends |-> FALSE]
    ELSE ParentsLoop(par, par[p], Append(parents, p))

NodeParents(par, n) == ParentsLoop(par, par[n], <<>>)

\* HierarchyNode.depth: len(self.parents)
Depth(par, n) == Len(NodeParents(par, n).parents)

\* ------------------------------------------------------- HierarchyList
\* a lookup that indexes a fresh node whether or not the id is known
FindOrCreateNodeAlways(h, id) ==
    [idx |-> (id :> Len(h.st.parent) + 1) @@ h.idx, st |-> NewNode(h.st)]

\* HierarchyList.find_or_create_node on h = [idx, st]
FindOrCreateNode(h, id) ==
    IF id \in DOMAIN h.idx THEN h
    ELSE [idx |-> h.idx @@ (id :> Len(h.st.parent) + 1), st |-> NewNode(h.st)]

\* establish_node that lists every node it establishes among the roots
EstablishNodeAllRoots(t, id, pid) ==
    LET h1   == FindOrCreateNode([idx |-> t.idx, st |-> t.st], id)
        node == h1.idx[id]
        kids == t.childrenIds \cup {id}
    IN  IF Truthy(pid)
        THEN LET h2 == FindOrCreateNode(h1, pid)
                 r  == SetParent(h2.st, node, h2.idx[pid])
             IN  [idx |-> h2.idx, st |-> r.st, childrenIds |-> kids,
                  roots |-> Append(t.roots, node), node |-> node, exc |-> r.exc]
        ELSE [idx |-> h1.idx, st |-> h1.st, childrenIds |-> kids,
              roots |-> Append(t.roots, node), node |-> node, exc |-> "none"]

\* HierarchyList.establish_node on t = [idx, st, childrenIds, roots]
EstablishNode(t, id, pid) ==
    LET h1   == FindOrCreateNode([idx |-> t.idx, st |-> t.st], id)
        node == h1.idx[id]
        kids == t.childrenIds \cup {id}
    IN  IF Truthy(pid)
        THEN LET h2 == FindOrCreateNode(h1, pid)
                 r  == SetParent(h2.st, node, h2.idx[pid])
             IN  [idx |-> h2.idx, st |-> r.st, childrenIds |-> kids,
                  roots |-> t.roots, node |-> node, exc |-> r.exc]
        ELSE [idx |-> h1.idx, st |-> h1.st, childrenIds |-> kids,
              roots |-> Append(t.roots, node), node |-> node, exc |-> "none"]

\* HierarchyList.parents: set(self.idx.keys()) - self.children
Parents(ix, kids) == DOMAIN ix \ kids

\* the key function handed to sort: the parity of the id the callback stored
\* on the node, a key under which nodes tie and differ
KeyFuns == {"parity"}
KeyOf(kf, ids, n) == ids[n] % 2

\* an order that also puts x before the elements with an equal key
BeforeOrEqual(kf, rev, ids, x, y) ==
    IF rev THEN KeyOf(kf, ids, x) >= KeyOf(kf, ids, y)
    ELSE KeyOf(kf, ids, x) =< KeyOf(kf, ids, y)

\* x sorts before y under (kf, reverse)
Before(kf, rev, ids, x, y) ==
    IF rev THEN KeyOf(kf, ids, x) > KeyOf(kf, ids, y)
    ELSE KeyOf(kf, ids, x) < KeyOf(kf, ids, y)

\* sorted(xs, key, reverse) and list.sort: stable, also when reversed
RECURSIVE InsertSorted(_, _, _, _, _)
InsertSorted(kf, rev, ids, xs, x) ==
    IF xs = <<>> THEN <<x>>
    ELSE IF Before(kf, rev, ids, x, xs[Len(xs)])
         THEN Append(InsertSorted(kf, rev, ids, SubSeq(xs, 1, Len(xs) - 1), x),
                     xs[Len(xs)])
         ELSE Append(xs, x)

RECURSIVE Sorted(_, _, _, _)
Sorted(kf, rev, ids, xs) ==
    IF xs = <<>> THEN <<>>
    ELSE InsertSorted(kf, rev, ids,
                      Sorted(kf, rev, ids, SubSeq(xs, 1, Len(xs) - 1)), xs[Len(xs)])

\* child.children = sorted(child.children, ...): the attribute is bound to a
\* new list object, the mapping entry keeps the old one
RebindSorted(st, c, kf, rev, ids) ==
    [st EXCEPT !.children[c] = Sorted(kf, rev, ids, st.children[c]),
               !.aliased[c] = FALSE]

\* HierarchyList.sort.descent; path = the nodes whose children are being
\* iterated further up the call stack (meeting one of them again recurses
\* until the interpreter gives up)
RECURSIVE SortDescent(_, _, _, _, _, _, _)
SortDescent(st, itemlist, k, path, kf, rev, ids) ==
    IF k > Len(itemlist) THEN [st |-> st, exc |-> "none"]
    ELSE LET c == itemlist[k]
         IN  IF st.children[c] = <<>>
             THEN SortDescent(st, itemlist, k + 1, path, kf, rev, ids)
             ELSE LET st1 == RebindSorted(st, c, kf, rev, ids)
                  IN  IF c \in path THEN [st |-> st1, exc |-> "RuntimeError"]
                      ELSE LET r == SortDescent(st1, st1.children[c], 1,
                                                path \cup {c}, kf, rev, ids)
                           IN  IF r.exc # "none" THEN r
                               ELSE SortDescent(r.st, itemlist, k + 1, path,
                                                kf, rev, ids)

\* HierarchyList.sort
SortList(st, rts, kf, rev, ids) ==
    LET top == Sorted(kf, rev, ids, rts)
        r   == SortDescent(st, top, 1, {}, kf, rev, ids)
    IN  [roots |-> top, st |-> r.st, exc |-> r.exc]

\* the filter functions handed to list_generator: none, or one that looks at
\* both of its arguments, filter_fun(item, depth), and excludes the item when
\* its id plus the depth it is called with is odd
Filters == {"none", "odd"}
FilterFun(f, ids, child, depth) == f = "odd" /\ (ids[child] + depth) % 2 = 1

\* a descent that goes on below a filtered node whatever filter_children is
DescendsUnfiltered(filtered, fc, depth) == depth > 0

\* a descent that stops one level early
DescendsEarly(filtered, fc, depth) == (~filtered \/ ~fc) /\ depth > 1

\* `if (not filtered or not filter_children) and depth > 0`
Descends(filtered, fc, depth) == (~filtered \/ ~fc) /\ depth > 0

\* HierarchyList.list_generator.descent, consumed to the end
RECURSIVE ListGenerator(_, _, _, _, _, _, _)
ListGenerator(kids, ids, itemlist, k, depth, f, fc) ==
    IF k > Len(itemlist) THEN <<>>
    ELSE LET child    == itemlist[k]
             filtered == f # "none" /\ FilterFun(f, ids, child, depth)
             own      == IF filtered THEN <<>> ELSE <<child>>
             below    == IF Descends(filtered, fc, depth)
                         THEN ListGenerator(kids, ids, kids[child], 1, depth - 1, f, fc)
                         ELSE <<>>
         IN  own \o below \o ListGenerator(kids, ids, itemlist, k + 1, depth, f, fc)

\* --------------------------------------------------------------- actions
Op(kind) == [kind |-> kind, key |-> "parity", rev |-> FALSE, depth |-> 0,
             filt |-> "none", fc |-> TRUE, n |-> 0, node |-> None, to |-> None]

CmpIdle == [phase |-> "idle"]

Init ==
    /\ items = <<>>
    /\ phase = "init"
    /\ idx = <<>>
    /\ childrenIds = {}
    /\ roots = <<>>
    /\ parent = <<>> /\ children = <<>> /\ field = <<>> /\ aliased = <<>>
    /\ nid = <<>>
    /\ lastOp = Op("new")
    /\ out = <<>>
    /\ exc = "none"
    /\ cmp = CmpIdle

\* one turn of the loop of HierarchyList.__init__ on the item (id, pid),
\* the callback (node.nid = id) included
EstablishItem(id, pid) ==
    /\ phase = "init"
    /\ Len(items) < MaxItems
    /\ LET r == EstablishNode([idx |-> idx, st |-> NodeState,
                               childrenIds |-> childrenIds, roots |-> roots], id, pid)
           grown == nid \o [k \in 1..(Len(r.st.parent) - Len(nid)) |-> None]
       IN  /\ items' = Append(items, <<id, pid>>)
           /\ idx' = r.idx
           /\ childrenIds' = r.childrenIds
           /\ roots' = r.roots
           /\ parent' = r.st.parent
           /\ children' = r.st.children
           /\ field' = r.st.field
           /\ aliased' = r.st.aliased
           /\ exc' = r.exc
           /\ phase' = IF r.exc = "none" THEN "init" ELSE "failed"
           /\ nid' = IF r.exc = "none" THEN [grown EXCEPT ![r.node] = id] ELSE grown
           /\ lastOp' = [Op("establish") EXCEPT !.node = r.node]
    /\ UNCHANGED <<out, cmp>>

\* the same on an input that keeps the documented contract: get_id_func
\* returns a unique key
Establish(id, pid) ==
    /\ \A j \in 1..Len(items) : items[j][1] # id
    /\ EstablishItem(id, pid)

\* the iterable is exhausted, the constructor returns
EndOfItems ==
    /\ phase = "init"
    /\ phase' = "built"
    /\ lastOp' = Op("built")
    /\ UNCHANGED <<items, idx, childrenIds, roots, parent, children, field,
                   aliased, nid, out, exc, cmp>>

\* HierarchyList.sort(key, reverse)
Sort(kf, rev) ==
    /\ phase = "built"
    /\ lastOp.kind # "traverse"
    /\ LET r == SortList(NodeState, roots, kf, rev, nid)
           again == lastOp.kind = "sort" /\ lastOp.key = kf /\ lastOp.rev = rev
       IN  /\ roots' = r.roots
           /\ parent' = r.st.parent
           /\ children' = r.st.children
           /\ field' = r.st.field
           /\ aliased' = r.st.aliased
           /\ exc' = r.exc
           /\ lastOp' = [Op("sort") EXCEPT !.key = kf, !.rev = rev,
                                           !.n = IF again THEN 2 ELSE 1]
    /\ UNCHANGED <<items, phase, idx, childrenIds, nid, out, cmp>>

\* list(HierarchyList.list_generator(depth, filter_fun, filter_children)).
\* The generator only reads the hierarchy: every state of the hierarchy is
\* reached without it, and a run is not continued after it. It is taken after
\* the build and after a sort; a sort that repeats the one before it (n = 2)
\* is the end of a run as well.
Traverse(depth, f, fc) ==
    /\ phase = "built"
    /\ lastOp.kind # "traverse"
    /\ lastOp.n < 2
    /\ out' = ListGenerator(children, nid, roots, 1, depth, f, fc)
    /\ exc' = "none"
    /\ lastOp' = [lastOp EXCEPT !.kind = "traverse", !.depth = depth,
                                !.filt = f, !.fc = fc]
    /\ UNCHANGED <<items, phase, idx, childrenIds, roots, parent, children,
                   field, aliased, nid, cmp>>

Next ==
    \/ \E id \in Ids, pid \in Ids \cup {None} : Establish(id, pid)
    \/ EndOfItems
    \/ \E kf \in KeyFuns, rev \in BOOLEAN : Sort(kf, rev)
    \/ \E depth \in Depths, f \in Filters, fc \in BOOLEAN :
           (f = "none" => fc) /\ Traverse(depth, f, fc)

Spec == Init /\ [][Next]_vars

\* ----------------------------------- construction from any input sequence
\* ids may repeat; a constructor that raised leaves nothing to work with
NextAny ==
    \/ \E id \in Ids, pid \in Ids \cup {None} : EstablishItem(id, pid)
    \/ EndOfItems

SpecAny == Init /\ [][NextAny]_vars

\* ------------------------------------------- nodes reparented by the caller
\* the hierarchy built from NumNodes items without a parent id
InitNode ==
    /\ items = [k \in 1..NumNodes |-> <<k, None>>]
    /\ phase = "built"
    /\ idx = [k \in 1..NumNodes |-> k]
    /\ childrenIds = 1..NumNodes
    /\ roots = [k \in 1..NumNodes |-> k]
    /\ parent = [k \in 1..NumNodes |-> None]
    /\ children = [k \in 1..NumNodes |-> <<>>]
    /\ field = [k \in 1..NumNodes |-> <<>>]
    /\ aliased = [k \in 1..NumNodes |-> TRUE]
    /\ nid = [k \in 1..NumNodes |-> k]
    /\ lastOp = Op("built")
    /\ out = <<>>
    /\ exc = "none"
    /\ cmp = CmpIdle

\* p and the nodes above it, following the parent references
RECURSIVE SelfAndAncestors(_, _)
SelfAndAncestors(p, seen) ==
    IF p = None \/ p \in seen THEN seen
    ELSE SelfAndAncestors(parent[p], seen \cup {p})

\* node.parent = p, for a node of the index and p a node of the index or
\* None; the caller never makes a node its own ancestor
Reparent(n, p) ==
    /\ phase = "built"
    /\ n \notin SelfAndAncestors(p, {})
    /\ LET r == SetParent(NodeState, n, p)
       IN  /\ parent' = r.st.parent
           /\ children' = r.st.children
           /\ field' = r.st.field
           /\ aliased' = r.st.aliased
           /\ exc' = r.exc
    /\ lastOp' = [Op("reparent") EXCEPT !.node = n, !.to = p]
    /\ UNCHANGED <<items, phase, idx, childrenIds, roots, nid, out, cmp>>

NextNode ==
    \E n \in Nodes, p \in Nodes \cup {None} : Reparent(n, p)

SpecNode == InitNode /\ [][NextNode]_vars

\* ---------------------------------------------------- compare_hierarchy
\* Python values: t is the type, n the number of an int, s the text of a
\* str, items the entries of a list (k = the index) or of a dict (k = the
\* key), in iteration order
PyNone == [t |-> "none", n |-> 0, s |-> "", items |-> <<>>]
PyInt(i) == [t |-> "int", n |-> i, s |-> "", items |-> <<>>]
PyStr(str) == [t |-> "str", n |-> 0, s |-> str, items |-> <<>>]
PyList(vs) == [t |-> "list", n |-> 0, s |-> "",
               items |-> [j \in 1..Len(vs) |-> [k |-> PyInt(j - 1), v |-> vs[j]]]]
PyDict(ks, vs) == [t |-> "dict", n |-> 0, s |-> "",
                   items |-> [j \in 1..Len(ks) |-> [k |-> PyStr(ks[j]), v |-> vs[j]]]]

\* isinstance(x, (list, dict))
IsContainer(x) == x.t \in {"list", "dict"}

\* x[k]
RECURSIVE DictLookup(_, _, _)
DictLookup(es, k, j) ==
    IF j > Len(es) THEN [exc |-> "KeyError", val |-> PyNone]
    ELSE IF es[j].k = k THEN [exc |-> "none", val |-> es[j].v]
    ELSE DictLookup(es, k, j + 1)

\* a lookup that takes the index of a list for one-based
GetItemOneBased(x, k) ==
    IF x.t = "list"
    THEN IF k.t # "int" THEN [exc |-> "TypeError", val |-> PyNone]
         ELSE IF k.n >= 1 /\ k.n <= Len(x.items)
              THEN [exc |-> "none", val |-> x.items[k.n].v]
         ELSE [exc |-> "IndexError", val |-> PyNone]
    ELSE IF x.t = "dict" THEN DictLookup(x.items, k, 1)
    ELSE [exc |-> "TypeError", val |-> PyNone]

GetItem(x, k) ==
    IF x.t = "list"
    THEN IF k.t # "int" THEN [exc |-> "TypeError", val |-> PyNone]
         ELSE IF k.n < Len(x.items) THEN [exc |-> "none", val |-> x.items[k.n + 1].v]
         ELSE [exc |-> "IndexError", val |-> PyNone]
    ELSE IF x.t = "dict" THEN DictLookup(x.items, k, 1)
    ELSE [exc |-> "TypeError", val |-> PyNone]

\* a record that takes its key from the top of the stack
HierarchyDifferenceKeyOfStack(stack, k, va, vb, pa, pb, level, vtype) ==
    [key_path |-> stack, key |-> IF stack = <<>> THEN PyNone ELSE stack[Len(stack)],
     a |-> va, b |-> vb, parent_a |-> pa, parent_b |-> pb, level |-> level,
     vtype |-> vtype]

\* yield_value: the record, with the contents the shared stack has when the
\* record is yielded
HierarchyDifference(stack, k, va, vb, pa, pb, level, vtype) ==
    [key_path |-> stack, key |-> k, a |-> va, b |-> vb, parent_a |-> pa,
     parent_b |-> pb, level |-> level, vtype |-> vtype]

\* current()
Current(stack) == IF stack = <<>> THEN PyNone ELSE stack[Len(stack)]

Outcome(recs, stack, e) == [out |-> recs, stack |-> stack, exc |-> e]

\* a stack that is never popped
PopNothing(stack) == stack

Pop(stack) == SubSeq(stack, 1, Len(stack) - 1)

\* descent, consumed to the end: the records yielded, the stack left behind
\* and the exception that ended the generator
RECURSIVE Descent(_, _, _, _, _, _, _)
RECURSIVE DescentLoop(_, _, _, _, _, _)
DescentLoop(a, b, j, level, stack, acc) ==
    IF j > Len(a.items) THEN Outcome(acc, stack, "none")
    ELSE LET k == a.items[j].k
             v == a.items[j].v
             g == GetItem(b, k)
         IN  IF IsContainer(v)
             THEN LET pushed == Append(stack, k)
                      index  == HierarchyDifference(pushed, k, k, PyNone, a, b, level, "index")
                  IN  IF g.exc = "IndexError"
                      THEN DescentLoop(a, b, j + 1, level, stack, Append(acc, index))
                      ELSE IF g.exc # "none" THEN Outcome(acc, pushed, g.exc)
                      ELSE LET r == Descent(k, v, g.val, a, b, level + 1, pushed)
                           IN  IF r.exc = "IndexError"
                               THEN DescentLoop(a, b, j + 1, level, Pop(r.stack),
                                                Append(acc \o r.out, index))
                               ELSE IF r.exc # "none"
                               THEN Outcome(acc \o r.out, r.stack, r.exc)
                               ELSE DescentLoop(a, b, j + 1, level, Pop(r.stack),
                                                acc \o r.out)
             ELSE IF g.exc = "KeyError"
                  THEN DescentLoop(a, b, j + 1, level, stack,
                           Append(acc, HierarchyDifference(stack, k, k, PyNone, a, b,
                                                           level, "key")))
                  ELSE IF g.exc # "none" THEN Outcome(acc, stack, g.exc)
                  ELSE DescentLoop(a, b, j + 1, level, stack,
                           IF v # g.val
                           THEN Append(acc, HierarchyDifference(stack, k, v, g.val, a, b,
                                                                level, "value"))
                           ELSE acc)

Descent(k, a, b, pa, pb, level, stack) ==
    IF IsContainer(a)
    THEN IF ~IsContainer(b) THEN Outcome(<<>>, stack, "TypeError")
         ELSE DescentLoop(a, b, 1, level, stack,
                  IF Len(a.items) # Len(b.items)
                  THEN <<HierarchyDifference(stack, Current(stack), PyInt(Len(a.items)),
                                             PyInt(Len(b.items)), pa, pb, level, "len")>>
                  ELSE <<>>)
    ELSE IF a # b
         THEN Outcome(<<HierarchyDifference(stack, k, a, b, PyNone, PyNone, level,
                                            "value")>>, stack, "none")
         ELSE Outcome(<<>>, stack, "none")

CompareHierarchy(a, b) == Descent(PyNone, a, b, PyNone, PyNone, 0, <<>>)

\* the values compared
SeqsUpTo(S, m) == UNION {[1..l -> S] : l \in 0..m}
ListsOf(S, m) == {PyList(vs) : vs \in SeqsUpTo(S, m)}
Pick(ks, K) == SelectSeq(ks, LAMBDA x : x \in K)
DictsOf(S, ks) ==
    UNION {{PyDict(Pick(ks, K), [j \in 1..Len(Pick(ks, K)) |-> f[Pick(ks, K)[j]]]) :
                f \in [K -> S]} : K \in SUBSET {ks[j] : j \in 1..Len(ks)}}
Scalars == {PyInt(1), PyInt(2)}
InnerKeys == <<"x">>
TopKeys == <<"x", "y">>
\* the values inside a container: scalars, lists of at most one scalar, and
\* dicts that have the key "x" or lack it
InnerValues ==
    Scalars \cup ListsOf(Scalars, 1) \cup DictsOf({PyInt(1)}, InnerKeys)
TopValues == Scalars \cup ListsOf(InnerValues, MaxLen) \cup DictsOf(InnerValues, TopKeys)

\* the two examples of the documentation
ExampleDictA == PyDict(<<"x", "y">>, <<PyInt(1), PyList(<<PyInt(1), PyInt(2)>>)>>)
ExampleDictB == PyDict(<<"x", "y">>, <<PyInt(1), PyList(<<PyInt(1), PyInt(3)>>)>>)
ExampleListA == PyList(<<PyInt(1), PyInt(2), PyInt(3)>>)
ExampleListB == PyList(<<PyInt(1), PyInt(2)>>)
Examples == {<<ExampleDictA, ExampleDictB>>, <<ExampleListA, ExampleListB>>}

\* a generator compare_hierarchy(a, b) that has not been advanced
InitCmp ==
    /\ items = <<>> /\ phase = "init" /\ idx = <<>> /\ childrenIds = {}
    /\ roots = <<>> /\ parent = <<>> /\ children = <<>> /\ field = <<>>
    /\ aliased = <<>> /\ nid = <<>> /\ lastOp = Op("new") /\ out = <<>>
    /\ exc = "none"
    /\ \E ab \in (TopValues \X TopValues) \cup Examples :
          cmp = [phase |-> "running", a |-> ab[1], b |-> ab[2], yielded |-> <<>>,
                 stack |-> <<>>, exc |-> "none"]

\* next() on the generator: the next record, StopIteration or the exception
NextDifference ==
    /\ cmp.phase = "running"
    /\ LET r == CompareHierarchy(cmp.a, cmp.b)
           n == Len(cmp.yielded)
       IN  cmp' = IF n < Len(r.out)
                  THEN [cmp EXCEPT !.yielded = Append(@, r.out[n + 1]),
                                   !.stack = r.out[n + 1].key_path]
                  ELSE [cmp EXCEPT !.phase = IF r.exc = "none" THEN "finished"
                                             ELSE "raised",
                                   !.stack = r.stack,
                                   !.exc = r.exc]
    /\ UNCHANGED treeVars

\* record.key_path of the j-th record yielded, read now: yield_value hands
\* the stack itself to the record, which so reads the one list all records
\* and the generator share
KeyPath(c, j) == c.stack

NextCmp == NextDifference

SpecCmp == InitCmp /\ [][NextCmp]_vars

\* ================================================================ claims
Count(xs, x) == Cardinality({j \in 1..Len(xs) : xs[j] = x})
Range(xs) == {xs[j] : j \in 1..Len(xs)}

\* C1: every node with a parent P occurs exactly once in P's children and in
\* no other node's children; a node without a parent occurs in no node's
\* children (nodes told apart by identity).
SingleParent ==
    \A n \in Nodes :
        /\ parent[n] # None =>
              /\ Count(children[parent[n]], n) = 1
              /\ \A q \in Nodes \ {parent[n]} : Count(children[q], n) = 0
        /\ parent[n] = None => \A q \in Nodes : Count(children[q], n) = 0

\* C2: a key or index of a that b lacks never makes the comparison raise, it
\* is reported as a key or index record; compare([1,2,3], [1,2]) yields a
\* len record (3, 2) and an index record for index 2.
AbsentKeyIsReported ==
    /\ cmp.phase = "raised" => cmp.exc \notin {"IndexError", "KeyError"}
    /\ (cmp.phase \in {"finished", "raised"} /\ cmp.a = ExampleListA
            /\ cmp.b = ExampleListB) =>
          /\ cmp.phase = "finished"
          /\ \E j \in 1..Len(cmp.yielded) :
                /\ cmp.yielded[j].vtype = "len"
                /\ cmp.yielded[j].a = PyInt(3) /\ cmp.yielded[j].b = PyInt(2)
          /\ \E j \in 1..Len(cmp.yielded) :
                /\ cmp.yielded[j].vtype = "index"
                /\ cmp.yielded[j].key = PyInt(2)

\* same keys and same lengths at every nesting level, scalars facing scalars
RECURSIVE SameShape(_, _)
SameShape(a, b) ==
    IF IsContainer(a)
    THEN /\ b.t = a.t
         /\ Len(b.items) = Len(a.items)
         /\ \A j \in 1..Len(a.items) :
               /\ b.items[j].k = a.items[j].k
               /\ SameShape(a.items[j].v, b.items[j].v)
    ELSE ~IsContainer(b)

\* the differing scalar leaves of two values of the same shape, each with its
\* key, the two values, the enclosing containers and the keys leading there
RECURSIVE LeafDiffs(_, _, _)
LeafDiffs(a, b, path) ==
    UNION {IF IsContainer(a.items[j].v)
           THEN LeafDiffs(a.items[j].v, b.items[j].v, Append(path, a.items[j].k))
           ELSE IF a.items[j].v # b.items[j].v
                THEN {[key_path |-> path, key |-> a.items[j].k, a |-> a.items[j].v,
                       b |-> b.items[j].v, parent_a |-> a, parent_b |-> b]}
                ELSE {} : j \in 1..Len(a.items)}

ExpectedDiffs(a, b) ==
    IF IsContainer(a) THEN LeafDiffs(a, b, <<>>)
    ELSE IF a # b THEN {[key_path |-> <<>>, key |-> PyNone, a |-> a, b |-> b,
                         parent_a |-> PyNone, parent_b |-> PyNone]}
    ELSE {}

Located(r) == [key_path |-> r.key_path, key |-> r.key, a |-> r.a, b |-> r.b,
               parent_a |-> r.parent_a, parent_b |-> r.parent_b]

\* C3: for a and b of identical shape that differ only in scalar leaves the
\* comparison yields exactly one value record per differing leaf and nothing
\* else, each with the leaf's key, the two values, the enclosing containers
\* and, when yielded, the key path down to the enclosing container.
OneValueRecordPerLeaf ==
    (cmp.phase \in {"finished", "raised"} /\ SameShape(cmp.a, cmp.b)) =>
        /\ cmp.phase = "finished"
        /\ \A j \in 1..Len(cmp.yielded) : cmp.yielded[j].vtype = "value"
        /\ {Located(cmp.yielded[j]) : j \in 1..Len(cmp.yielded)}
               = ExpectedDiffs(cmp.a, cmp.b)
        /\ Len(cmp.yielded) = Cardinality(ExpectedDiffs(cmp.a, cmp.b))

\* C3 witness: the documented example has been compared to the end
OneValueRecordPerLeafWitness ==
    /\ cmp.phase = "finished"
    /\ cmp.a = ExampleDictA /\ cmp.b = ExampleDictB
    /\ cmp.yielded = <<[key_path |-> <<PyStr("y")>>, key |-> PyInt(1), a |-> PyInt(2),
                        b |-> PyInt(3), parent_a |-> PyList(<<PyInt(1), PyInt(2)>>),
                        parent_b |-> PyList(<<PyInt(1), PyInt(3)>>), level |-> 1,
                        vtype |-> "value"]>>

\* C9: comparing a value with a deep-equal value yields no record at all.
EqualYieldsNothing ==
    (cmp.phase # "idle" /\ cmp.a = cmp.b) =>
        /\ cmp.phase \in {"running", "finished"}
        /\ cmp.yielded = <<>>

\* C9 witness: a nested container has been compared with an equal one
EqualYieldsNothingWitness ==
    /\ cmp.phase = "finished"
    /\ cmp.a = cmp.b
    /\ cmp.a.t = "dict"
    /\ \E j \in 1..Len(cmp.a.items) :
          cmp.a.items[j].v.t = "list" /\ cmp.a.items[j].v.items # <<>>

\* ------------------------------------------------------------ the index
ItemId(j) == items[j][1]
ItemParentId(j) == items[j][2]
UniqueIds == \A j, l \in 1..Len(items) : j # l => ItemId(j) # ItemId(l)

\* C4: with unique ids, an item whose parent id is the id of another item,
\* before or after it in the input, has its node exactly once in the
\* children of the parent's node, its parent reference is that node, and
\* the parent's node is among the roots if the parent has no parent id and
\* among the children of its own parent otherwise.
ChildAttachedToParent ==
    (phase = "built" /\ UniqueIds) =>
        \A j, l \in 1..Len(items) :
            (j # l /\ Truthy(ItemParentId(j)) /\ ItemParentId(j) = ItemId(l)) =>
                LET c == idx[ItemId(j)]
                    p == idx[ItemId(l)]
                IN  /\ Count(children[p], c) = 1
                    /\ parent[c] = p
                    /\ IF Truthy(ItemParentId(l))
                       THEN p \in Range(children[idx[ItemParentId(l)]])
                       ELSE p \in Range(roots)

\* C4 witness: a chain of three items was given grandchild first, root last
ChildAttachedToParentWitness ==
    /\ phase = "built"
    /\ items = <<<<3, 2>>, <<2, 1>>, <<1, None>>>>
    /\ children[idx[1]] = <<idx[2]>>
    /\ children[idx[2]] = <<idx[3]>>

\* sort has not been applied (lastOp.n counts the sorts, up to 2)
Unsorted == lastOp.n = 0

\* the nodes of the items without a parent id, in input order
RECURSIVE ParentlessNodes(_)
ParentlessNodes(j) ==
    IF j = 0 THEN <<>>
    ELSE IF Truthy(ItemParentId(j)) THEN ParentlessNodes(j - 1)
    ELSE Append(ParentlessNodes(j - 1), idx[ItemId(j)])

\* C5: with unique ids, after construction the root sequence holds exactly
\* the nodes of the items without a parent id, each once, in input order,
\* and no placeholder.
RootsAreParentlessItems ==
    (phase = "built" /\ UniqueIds /\ Unsorted) =>
        roots = ParentlessNodes(Len(items))

\* C5 witness: two roots around a child whose parent is only a placeholder
RootsAreParentlessItemsWitness ==
    /\ phase = "built"
    /\ lastOp.kind = "built"
    /\ items = <<<<2, None>>, <<3, 1>>, <<1, None>>>>
    /\ roots = <<idx[2], idx[1]>>

\* the first occurrence of x taken out of xs
RemoveFirst(xs, x) ==
    IF x \notin Range(xs) THEN xs
    ELSE RemoveAt(xs, CHOOSE j \in 1..Len(xs) :
                          xs[j] = x /\ \A l \in 1..(j - 1) : xs[l] # x)

\* C6: giving a node n with parent P another parent Q removes n from P's
\* children and appends it to Q's: P has one child less, Q one more, n's
\* parent is Q and the other entries keep their order; giving it no parent
\* removes it from P's children.
ReparentMovesNode ==
    [][(lastOp'.kind = "reparent" /\ parent[lastOp'.node] # None
            /\ lastOp'.to # parent[lastOp'.node]) =>
          LET n == lastOp'.node
              P == parent[lastOp'.node]
              Q == lastOp'.to
          IN  /\ parent'[n] = Q
              /\ IF Q = None
                 THEN children'[P] = RemoveFirst(children[P], n)
                 ELSE /\ Len(children'[P]) = Len(children[P]) - 1
                      /\ Len(children'[Q]) = Len(children[Q]) + 1
                      /\ children'[P] = RemoveFirst(children[P], n)
                      /\ children'[Q] = Append(children[Q], n)]_vars

\* C7: after every operation that returned, for every node the sequence
\* stored in the mapping under "children" is the node's children: the same
\* nodes in the same order.
FieldIsChildren == exc = "none" => \A n \in Nodes : field[n] = children[n]

\* the index paths from the root sequence: <<j>> is roots[j], Append(p, l)
\* the l-th child of the node at p
RECURSIVE NodeAt(_)
NodeAt(p) ==
    IF Len(p) = 1 THEN roots[p[1]]
    ELSE children[NodeAt(SubSeq(p, 1, Len(p) - 1))][p[Len(p)]]

RECURSIVE PathsOfLength(_)
PathsOfLength(l) ==
    IF l = 1 THEN {<<j>> : j \in 1..Len(roots)}
    ELSE UNION {{Append(p, j) : j \in 1..Len(children[NodeAt(p)])} :
                    p \in PathsOfLength(l - 1)}

PathsWithin(depth) == UNION {PathsOfLength(l) : l \in 1..(depth + 1)}

\* p comes before q in pre-order
PreOrderBefore(p, q) ==
    \/ Len(p) < Len(q) /\ SubSeq(q, 1, Len(p)) = p
    \/ \E j \in 1..Len(p) :
          /\ j =< Len(q)
          /\ SubSeq(p, 1, j - 1) = SubSeq(q, 1, j - 1)
          /\ p[j] < q[j]

\* C8: without a filter, list_generator(depth=N) yields in pre-order, every
\* level in its stored order, exactly the nodes within N child steps of the
\* root sequence; with N = 0 that is the root sequence.
TraversalIsBoundedPreOrder ==
    (lastOp.kind = "traverse" /\ lastOp.filt = "none") =>
        LET ps == PathsWithin(lastOp.depth)
        IN  /\ Len(out) = Cardinality(ps)
            /\ \A p \in ps :
                  out[1 + Cardinality({q \in ps : PreOrderBefore(q, p)})] = NodeAt(p)
            /\ lastOp.depth = 0 => out = roots

\* C8 witness: the documented chain 1 <- 2 <- 3 traversed with depth 3
TraversalIsBoundedPreOrderWitness ==
    /\ lastOp.kind = "traverse" /\ lastOp.filt = "none" /\ lastOp.depth = 3
    /\ items = <<<<1, None>>, <<2, 1>>, <<3, 2>>>>
    /\ out = <<idx[1], idx[2], idx[3]>>

\* the elements of xs whose key is v, in their order
WithKey(kf, xs, v) == SelectSeq(xs, LAMBDA x : KeyOf(kf, nid, x) = v)
Keys == 0..MaxItems

\* C10: sort keeps the nodes with equal keys of the root sequence and of
\* every children sequence in their relative order, also when reversed, and
\* a second sort with the same key and flag changes no sequence.
SortStableIdempotent ==
    [][lastOp'.kind = "sort" =>
          /\ \A v \in Keys :
                /\ WithKey(lastOp'.key, roots', v) = WithKey(lastOp'.key, roots, v)
                /\ \A n \in Nodes :
                      WithKey(lastOp'.key, children'[n], v)
                          = WithKey(lastOp'.key, children[n], v)
          /\ (lastOp.kind = "sort" /\ lastOp.key = lastOp'.key
                  /\ lastOp.rev = lastOp'.rev) =>
                (roots' = roots /\ children' = children)]_vars

\* C10 witness: sorted twice in reverse by a key that ties two of three
\* siblings, the tied ones still in input order
SortStableIdempotentWitness ==
    /\ lastOp.kind = "sort" /\ lastOp.n = 2 /\ lastOp.rev /\ lastOp.key = "parity"
    /\ items = <<<<2, None>>, <<1, None>>, <<3, None>>>>
    /\ roots = <<idx[1], idx[3], idx[2]>>

\* the ids of the index whose node is the child of no node
UnattachedIds == {id \in DOMAIN idx : parent[idx[id]] = None}

\* C11: with unique ids, after construction the parents property of the
\* index is the set of the ids in idx never attached as a child: the ids of
\* the items without a parent id and of the placeholders without a parent.
ParentsAreUnattachedIds ==
    (phase = "built" /\ UniqueIds) => Parents(idx, childrenIds) = UnattachedIds

\* C12: a record is immutable once yielded: each of its fields, key_path
\* included, has at every later point of the consumption the value it had
\* when the record was yielded (the other fields are values never mutated).
RecordsKeepKeyPath ==
    cmp.phase \in {"running", "finished"} =>
        \A j \in 1..Len(cmp.yielded) : KeyPath(cmp, j) = cmp.yielded[j].key_path

\* C13: whatever a and b are (a list facing a dict, a container facing a
\* scalar, containers of different lengths), consuming the comparison to the
\* end never raises: the generator is exhausted without an exception.
ComparisonNeverRaises == cmp.phase # "raised"

\* the depth list_generator was called with, less the child steps from the
\* root sequence to the node at path p
Remaining(p) == lastOp.depth - (Len(p) - 1)

\* filter_fun returns true for the node at p, called with the node and the
\* remaining depth
Excluded(p) ==
    lastOp.filt # "none" /\ FilterFun(lastOp.filt, nid, NodeAt(p), Remaining(p))

\* the node at p is visited: below every node above it the traversal went on
Visited(p) ==
    \A l \in 1..(Len(p) - 1) :
        LET q == SubSeq(p, 1, l)
        IN  Remaining(q) > 0 /\ (~Excluded(q) \/ ~lastOp.fc)

Emitted == {p \in PathsWithin(lastOp.depth) : Visited(p) /\ ~Excluded(p)}

\* C14: list_generator(depth, filter_fun, filter_children) calls filter_fun
\* with (node, depth - d) for a node d steps below the roots, emits the node
\* iff filter_fun did not return true, and visits its children iff
\* depth - d > 0 and the node was not filtered or filter_children is false:
\* the output is the visited, not excluded nodes in pre-order.
FilterDecidesEmissionAndDescent ==
    lastOp.kind = "traverse" =>
        /\ Len(out) = Cardinality(Emitted)
        /\ \A p \in Emitted :
              out[1 + Cardinality({q \in Emitted : PreOrderBefore(q, p)})] = NodeAt(p)

\* C14 witness: root 1 is excluded at depth 2 and, filter_children being
\* false, its child 3 is visited at depth 1 and emitted
FilterDecidesEmissionAndDescentWitness ==
    /\ lastOp.kind = "traverse" /\ lastOp.filt = "odd" /\ ~lastOp.fc
    /\ lastOp.depth = 2
    /\ items = <<<<1, None>>, <<3, 1>>>>
    /\ out = <<idx[3]>>

\* xs is ordered by key: non-decreasing, non-increasing when reversed
Ordered(kf, rev, xs) ==
    \A j \in 1..(Len(xs) - 1) :
        IF rev THEN KeyOf(kf, nid, xs[j]) >= KeyOf(kf, nid, xs[j + 1])
        ELSE KeyOf(kf, nid, xs[j]) =< KeyOf(kf, nid, xs[j + 1])

\* no node is above itself
Acyclic == \A n \in Nodes : n \notin SelfAndAncestors(parent[n], {})

\* C15: after sort(key, reverse) on an index that is a forest, the root
\* sequence and the children of every node of the index, the nodes below a
\* placeholder that no root reaches included, are ordered by key.
EverySequenceOrdered ==
    (lastOp.kind = "sort" /\ exc = "none" /\ Acyclic) =>
        /\ Ordered(lastOp.key, lastOp.rev, roots)
        /\ \A n \in Nodes : Ordered(lastOp.key, lastOp.rev, children[n])

\* the keys of a dict, the indices of a list
KeysOf(x) == {x.items[j].k : j \in 1..Len(x.items)}

\* C16: the comparison is driven by a's keys: every value, key and index
\* record carries a key or index of the container of a being iterated (a
\* record without such a container is the one of two scalars compared at the
\* top), so a key only b has gets no record of its own; it shows at most in
\* the len record of its container, of which there is at most one, and only
\* when the two sizes differ.
DrivenByKeysOfA ==
    \A j \in 1..Len(cmp.yielded) :
        LET r == cmp.yielded[j]
        IN  IF r.vtype = "len"
            THEN /\ r.a # r.b
                 /\ \A l \in 1..Len(cmp.yielded) :
                       (l # j /\ cmp.yielded[l].vtype = "len") =>
                           cmp.yielded[l].key_path # r.key_path
            ELSE /\ r.vtype \in {"value", "key", "index"}
                 /\ IF IsContainer(r.parent_a) THEN r.key \in KeysOf(r.parent_a)
                    ELSE ~IsContainer(cmp.a) /\ Len(cmp.yielded) = 1

\* C16 witness: b has "x" and "y", a only "x" with an equal value: the
\* comparison is over and its only record is the len record (1, 2)
DrivenByKeysOfAWitness ==
    /\ cmp.phase = "finished"
    /\ cmp.a = PyDict(<<"x">>, <<PyInt(1)>>)
    /\ cmp.b = PyDict(<<"x", "y">>, <<PyInt(1), PyInt(2)>>)
    /\ Len(cmp.yielded) = 1
    /\ cmp.yielded[1].vtype = "len"
    /\ cmp.yielded[1].a = PyInt(1) /\ cmp.yielded[1].b = PyInt(2)

\* the ids referenced by the items consumed so far, as id or as parent id
Referenced ==
    {ItemId(j) : j \in 1..Len(items)}
        \cup {ItemParentId(j) : j \in {l \in 1..Len(items) : Truthy(ItemParentId(l))}}

\* idx holds one node per id referenced, and no node exists besides them
OneNodePerId ==
    /\ DOMAIN idx = Referenced
    /\ \A i, j \in DOMAIN idx : i # j => idx[i] # idx[j]
    /\ Len(parent) = Cardinality(DOMAIN idx)

IsPrefix(xs, ys) == Len(xs) =< Len(ys) /\ SubSeq(ys, 1, Len(xs)) = xs

\* C17: during and after construction from any input (ids may repeat, and
\* be referenced as parent id before, after or without being an item) idx
\* holds exactly one node per id referenced so far; an id already in idx
\* resolves to the node it had, no node is created for it, and the lookup
\* leaves that node's parent and children as they were: an item with a known
\* id and no parent id changes no node, a known parent keeps its parent and
\* the children it had, and no other node's stored id changes.
NodeIdentityStable ==
    [][/\ OneNodePerId'
       /\ \A id \in DOMAIN idx : id \in DOMAIN idx' /\ idx'[id] = idx[id]
       /\ lastOp'.kind = "establish" =>
             LET it  == items'[Len(items')]
                 new == ({it[1]} \cup (IF Truthy(it[2]) THEN {it[2]} ELSE {}))
                            \ DOMAIN idx
             IN  /\ Len(parent') = Len(parent) + Cardinality(new)
                 /\ lastOp'.node = idx'[it[1]]
                 /\ (it[1] \in DOMAIN idx /\ ~Truthy(it[2])) =>
                        (parent' = parent /\ children' = children /\ field' = field)
                 /\ (Truthy(it[2]) /\ it[2] \in DOMAIN idx /\ it[2] # it[1]) =>
                        /\ IsPrefix(children[idx[it[2]]], children'[idx[it[2]]])
                        /\ parent'[idx[it[2]]] = parent[idx[it[2]]]
                 /\ \A n \in Nodes \ {lastOp'.node} : nid'[n] = nid[n]]_vars

\* C17 witness: id 1 was referenced as a parent before it came as an item,
\* and came twice: one node for it, holding its child, twice among the roots
NodeIdentityStableWitness ==
    /\ phase = "built"
    /\ items = <<<<2, 1>>, <<1, None>>, <<1, None>>>>
    /\ Len(parent) = 2
    /\ children[idx[1]] = <<idx[2]>>
    /\ roots = <<idx[1], idx[1]>>

\* C18: when a node n records a parent P that does not hold n among its
\* children and n is given another parent, the assignment raises an error
\* and changes nothing: n's parent is still P and the children of P and of
\* the intended parent are as before.
InconsistentReparentFails ==
    [][(/\ lastOp'.kind = "reparent"
        /\ parent[lastOp'.node] # None
        /\ lastOp'.node \notin Range(children[parent[lastOp'.node]])
        /\ lastOp'.to # parent[lastOp'.node]) =>
          /\ exc' = "ValueError"
          /\ parent' = parent
          /\ children' = children]_vars

\* C19: after construction from an input with unique ids, whatever its
\* parent ids, following the parent references from any node of idx ends at
\* a node without a parent: parents and depth are computed in finitely many
\* steps and depth is the number of distinct ancestors.
ParentChainsEnd ==
    (phase = "built" /\ UniqueIds) =>
        \A id \in DOMAIN idx :
            /\ NodeParents(parent, idx[id]).ends
            /\ Depth(parent, idx[id])
                   = Cardinality(Range(NodeParents(parent, idx[id]).parents))

====
